---- MODULE Spec2Model ----
(***************************************************************************)
(* A model of package waitroutine (src/waitroutine.go): the WaitRoutine    *)
(* type, which couples a sync.WaitGroup with a cancellable                 *)
(* context.Context, its methods, and the package-level functions that act  *)
(* on DefaultWaitRoutine.  Goroutines launched by Go/GoRoutine are the     *)
(* tasks; the goroutines that call the API are the callers.                *)
(***************************************************************************)
EXTENDS Integers, FiniteSets, Sequences, TLC

\* ---------------------------------------------------------------- bounds
\* Goroutines launched over a whole run.
MaxTasks == 2
\* Functions passed to one Go(...) or GoRoutine(...) call.
MaxFns == 2

\* ------------------------------------------------------------ the program
\* The goroutines that call the API (a main goroutine and, as in
\* TestWaitRoutine_Cancel, a timer goroutine).
Callers == {"m1", "m2"}

\* The package's default instance and one instance made by the program.
DefaultWaitRoutine == "D"
Coords == {DefaultWaitRoutine, "A"}

\* Contexts: context.Background(), a parent made outside the package (it may
\* carry a deadline, as in TestWaitRoutine_Wait), and the context each
\* WaitRoutine derives for itself, named after its WaitRoutine.
Background == "bg"
Outer == "P"
CtxIds == {Background, Outer} \cup Coords
NoCtx == "none"
\* The nil argument of New.
Nil == "nil"

TaskIds == 1..MaxTasks

VARIABLES
  wg,          \* wg[c]: the counter of c.wg
  ctx,         \* ctx[c]: c.ctx
  cancelFunc,  \* cancelFunc[c]: the context c.cancelFunc cancels
  given,       \* given[c]: the argument New was called with
  parent,      \* parent[x]: the context x was derived from
  err,         \* err[x]: x.Err(): "nil" until x is cancelled (Done is closed)
  tasks,       \* tasks[t]: the t-th goroutine launched: the instance that
               \* counts it (wr), what it runs (kind, body), how far it is
               \* (st), the context it was handed (arg) and the goroutine
               \* that launched it (by, 0 for a caller)
  pc           \* pc[th]: the call caller th is in

vars == <<wg, ctx, cancelFunc, given, parent, err, tasks, pc>>

NoTask == [wr |-> NoCtx, kind |-> "none", body |-> "none", st |-> "none",
           arg |-> NoCtx, by |-> 0]
IdleCall == [op |-> "none", wr |-> NoCtx, pkg |-> FALSE, phase |-> "idle",
             left |-> 0, snap |-> {}, ret |-> NoCtx]

\* What a function passed to Go does: return by itself, or block for ever.
\* What a Routine passed to GoRoutine does: the loop of the package comment
\* and of the tests, which returns once ctx.Done() is closed.  Either may
\* instead end its goroutine without returning (runtime.Goexit).
Bodies(kind) == IF kind = "fn" THEN {"returns", "forever", "aborts"}
                ELSE {"untilDone", "aborts"}

Done(x) == err[x] # "nil"
Launched == {t \in TaskIds : tasks[t].st # "none"}
Free(th) == pc[th].phase = "idle"

\* Goroutines the calls under way have yet to launch.
RECURSIVE Owed(_)
Owed(S) == IF S = {} THEN 0
           ELSE LET th == CHOOSE x \in S : TRUE IN pc[th].left + Owed(S \ {th})

\* y is x or was derived, in any number of steps, from x.
RECURSIVE Descends(_, _)
Descends(y, x) ==
  IF y = x THEN TRUE
  ELSE IF y = NoCtx \/ parent[y] = NoCtx THEN FALSE
  ELSE Descends(parent[y], x)

\* A slip: cancelling stamps its error on a context that already has one.
CancelTreeOverwrite(e, x, why) ==
  [y \in CtxIds |-> IF Descends(y, x) THEN why ELSE e[y]]

\* A slip: cancelling a cancelled context arms it again.
CancelTreeToggle(e, x, why) ==
  [y \in CtxIds |-> IF ~Descends(y, x) THEN e[y]
                    ELSE IF e[y] = "nil" THEN why ELSE "nil"]

\* Cancelling x: x and every context derived from it that is not yet
\* cancelled gets the error; a cancelled context keeps the error it has.
CancelTree(e, x, why) ==
  [y \in CtxIds |-> IF e[y] = "nil" /\ Descends(y, x) THEN why ELSE e[y]]

\* A slip: New derives from context.Background() whatever it is given.
NewParentIgnored(p) == Background

\* New(ctx): a nil argument is replaced by context.Background() ...
NewParent(p) == IF p = Nil THEN Background ELSE p

\* A slip: New runs the cancel function it has just been given (a deferred
\* cancel), so the instance is born cancelled.
NewBornCancelled(c, p) ==
  [ctx |-> c, cancelFunc |-> c, parent |-> NewParent(p), err |-> "Canceled"]

\* ... and the new WaitRoutine c holds context.WithCancel of it: a context
\* of its own and the function that cancels it.  The instances are made
\* before any context is cancelled, so the new context is not cancelled.
New(c, p) == [ctx |-> c, cancelFunc |-> c, parent |-> NewParent(p), err |-> "nil"]

\* The instance the program makes itself, and what it passes to New: nil,
\* the outer parent, or DefaultWaitRoutine.Context().
Made == Coords \ {DefaultWaitRoutine}
NewArgs == {Nil, Outer, DefaultWaitRoutine}

\* DefaultWaitRoutine = New(context.Background()) when the package is
\* loaded, and the program's own instance, New(p).
Init ==
  \E p \in NewArgs :
    LET arg == [c \in Coords |-> IF c = DefaultWaitRoutine THEN Background ELSE p]
        made == [c \in Coords |-> New(c, arg[c])] IN
    /\ wg = [c \in Coords |-> 0]
    /\ ctx = [c \in Coords |-> made[c].ctx]
    /\ cancelFunc = [c \in Coords |-> made[c].cancelFunc]
    /\ given = arg
    /\ parent = [x \in CtxIds |->
                   IF x \in Coords THEN made[x].parent
                   ELSE IF x = Outer THEN Background ELSE NoCtx]
    /\ err = [x \in CtxIds |-> IF x \in Coords THEN made[x].err ELSE "nil"]
    /\ tasks = [t \in TaskIds |-> NoTask]
    /\ pc = [th \in Callers |-> IdleCall]

\* The deadline of the outer parent passes (the parent is part of the
\* program only when an instance was derived from it).
ParentDeadline ==
  /\ \E c \in Coords : given[c] = Outer
  /\ ~Done(Outer)
  /\ err' = CancelTree(err, Outer, "DeadlineExceeded")
  /\ UNCHANGED <<wg, ctx, cancelFunc, given, parent, tasks, pc>>

\* ---------------------------------------------------------------- calls
\* The value of `return c` at the end of Go and GoRoutine: the receiver.
GoResult(call) == call.wr

\* The call has left its loop and is at `return c`.
Returning(call) ==
  [call EXCEPT !.phase = "returning", !.left = 0, !.ret = GoResult(call)]

\* c.Go(fns...) / c.GoRoutine(routines...) with k arguments: the loop is
\* entered; with no argument the call is at its return at once.
Launch(th, op, c, k, pkg) ==
  LET call == [op |-> op, wr |-> c, pkg |-> pkg, phase |-> "active",
               left |-> k, snap |-> {}, ret |-> NoCtx] IN
  /\ Free(th)
  /\ Cardinality(Launched) + Owed(Callers) + k <= MaxTasks
  /\ pc' = [pc EXCEPT ![th] = IF k = 0 THEN Returning(call) ELSE call]
  /\ UNCHANGED <<wg, ctx, cancelFunc, given, parent, err, tasks>>

Go(th, c, k, pkg) == Launch(th, "Go", c, k, pkg)

GoRoutine(th, c, k, pkg) == Launch(th, "GoRoutine", c, k, pkg)

\* A slip: the round launches the goroutine without c.wg.Add(1).
GoRoundNoAdd(th, body) ==
  LET call == pc[th]
      t == Cardinality(Launched) + 1
      kind == IF call.op = "Go" THEN "fn" ELSE "routine" IN
  /\ call.op \in {"Go", "GoRoutine"}
  /\ call.phase = "active"
  /\ t \in TaskIds
  /\ body \in Bodies(kind)
  /\ tasks' = [tasks EXCEPT ![t] = [wr |-> call.wr, kind |-> kind, body |-> body,
                                    st |-> "pending", arg |-> NoCtx, by |-> 0]]
  /\ pc' = [pc EXCEPT ![th] = IF call.left = 1 THEN Returning(call)
                              ELSE [call EXCEPT !.left = @ - 1]]
  /\ UNCHANGED <<wg, ctx, cancelFunc, given, parent, err>>

\* A slip: the round launches nothing once the instance is cancelled.
GoRoundUnlessCancelled(th, body) ==
  LET call == pc[th]
      t == Cardinality(Launched) + 1
      kind == IF call.op = "Go" THEN "fn" ELSE "routine" IN
  /\ call.op \in {"Go", "GoRoutine"}
  /\ call.phase = "active"
  /\ ~Done(ctx[call.wr])
  /\ t \in TaskIds
  /\ body \in Bodies(kind)
  /\ wg' = [wg EXCEPT ![call.wr] = @ + 1]
  /\ tasks' = [tasks EXCEPT ![t] = [wr |-> call.wr, kind |-> kind, body |-> body,
                                    st |-> "pending", arg |-> NoCtx, by |-> 0]]
  /\ pc' = [pc EXCEPT ![th] = IF call.left = 1 THEN Returning(call)
                              ELSE [call EXCEPT !.left = @ - 1]]
  /\ UNCHANGED <<ctx, cancelFunc, given, parent, err>>

\* A slip: every round adds the number of functions still to launch.
GoRoundAddAll(th, body) ==
  LET call == pc[th]
      t == Cardinality(Launched) + 1
      kind == IF call.op = "Go" THEN "fn" ELSE "routine" IN
  /\ call.op \in {"Go", "GoRoutine"}
  /\ call.phase = "active"
  /\ t \in TaskIds
  /\ body \in Bodies(kind)
  /\ wg' = [wg EXCEPT ![call.wr] = @ + call.left]
  /\ tasks' = [tasks EXCEPT ![t] = [wr |-> call.wr, kind |-> kind, body |-> body,
                                    st |-> "pending", arg |-> NoCtx, by |-> 0]]
  /\ pc' = [pc EXCEPT ![th] = IF call.left = 1 THEN Returning(call)
                              ELSE [call EXCEPT !.left = @ - 1]]
  /\ UNCHANGED <<ctx, cancelFunc, given, parent, err>>

\* One round of the loop: c.wg.Add(1), then go c.goFn(fn) or
\* go c.goRoutine(routine); after the last round the call is at `return c`.
GoRound(th, body) ==
  LET call == pc[th]
      t == Cardinality(Launched) + 1
      kind == IF call.op = "Go" THEN "fn" ELSE "routine" IN
  /\ call.op \in {"Go", "GoRoutine"}
  /\ call.phase = "active"
  /\ t \in TaskIds
  /\ body \in Bodies(kind)
  /\ wg' = [wg EXCEPT ![call.wr] = @ + 1]
  /\ tasks' = [tasks EXCEPT ![t] = [wr |-> call.wr, kind |-> kind, body |-> body,
                                    st |-> "pending", arg |-> NoCtx, by |-> 0]]
  /\ pc' = [pc EXCEPT ![th] = IF call.left = 1 THEN Returning(call)
                              ELSE [call EXCEPT !.left = @ - 1]]
  /\ UNCHANGED <<ctx, cancelFunc, given, parent, err>>

\* Go / GoRoutine returns to its caller.
GoReturn(th) ==
  /\ pc[th].phase = "returning"
  /\ pc' = [pc EXCEPT ![th] = IdleCall]
  /\ UNCHANGED <<wg, ctx, cancelFunc, given, parent, err, tasks>>

\* A slip: Cancel waits for the counter to reach zero before it cancels.
CancelWaits(th, c, pkg) ==
  /\ Free(th)
  /\ wg[c] = 0
  /\ err' = CancelTree(err, cancelFunc[c], "Canceled")
  /\ UNCHANGED <<wg, ctx, cancelFunc, given, parent, tasks, pc>>

\* A slip: the method calls DefaultWaitRoutine.cancelFunc(), as the
\* package-level function does.
CancelDefault(th, c, pkg) ==
  /\ Free(th)
  /\ err' = CancelTree(err, cancelFunc[DefaultWaitRoutine], "Canceled")
  /\ UNCHANGED <<wg, ctx, cancelFunc, given, parent, tasks, pc>>

\* c.Cancel(): c.cancelFunc() runs and the call returns.
Cancel(th, c, pkg) ==
  /\ Free(th)
  /\ err' = CancelTree(err, cancelFunc[c], "Canceled")
  /\ UNCHANGED <<wg, ctx, cancelFunc, given, parent, tasks, pc>>

\* A slip: Wait is released at once only if, besides, no call of Go or
\* GoRoutine is under way.
WaitHeedsCalls(th, c, pkg) ==
  /\ Free(th)
  /\ pc' = [pc EXCEPT ![th] =
              [op |-> "Wait", wr |-> c, pkg |-> pkg,
               phase |-> IF wg[c] = 0 /\ Owed(Callers) = 0
                         THEN "released" ELSE "blocked",
               left |-> 0,
               snap |-> {t \in Launched : tasks[t].wr = c},
               ret |-> NoCtx]]
  /\ UNCHANGED <<wg, ctx, cancelFunc, given, parent, err, tasks>>

\* c.Wait(): c.wg.Wait() is released at once when the counter is zero, and
\* otherwise enrols the caller as a waiter.  snap is the set of goroutines
\* counted on c so far.
Wait(th, c, pkg) ==
  /\ Free(th)
  /\ pc' = [pc EXCEPT ![th] =
              [op |-> "Wait", wr |-> c, pkg |-> pkg,
               phase |-> IF wg[c] = 0 THEN "released" ELSE "blocked",
               left |-> 0,
               snap |-> {t \in Launched : tasks[t].wr = c},
               ret |-> NoCtx]]
  /\ UNCHANGED <<wg, ctx, cancelFunc, given, parent, err, tasks>>

\* A released waiter returns from c.wg.Wait(), and so from Wait.
WaitReturn(th) ==
  /\ pc[th].op = "Wait"
  /\ pc[th].phase = "released"
  /\ pc' = [pc EXCEPT ![th] = IdleCall]
  /\ UNCHANGED <<wg, ctx, cancelFunc, given, parent, err, tasks>>

\* A slip: the package-level Go launches on another instance than the default.
PkgGoOwn(th, k) == Go(th, "A", k, TRUE)

\* The package-level functions.
PkgGo(th, k) == Go(th, DefaultWaitRoutine, k, TRUE)
PkgGoRoutine(th, k) == GoRoutine(th, DefaultWaitRoutine, k, TRUE)
PkgCancel(th) == Cancel(th, DefaultWaitRoutine, TRUE)
PkgWait(th) == Wait(th, DefaultWaitRoutine, TRUE)

\* ---------------------------------------------------------------- tasks
\* A slip: goRoutine hands the routine context.Background(), not c.ctx.
TaskStartBackground(t) ==
  /\ tasks[t].st = "pending"
  /\ tasks' = [tasks EXCEPT ![t].st = "running",
                            ![t].arg = IF tasks[t].kind = "routine"
                                       THEN Background ELSE NoCtx]
  /\ UNCHANGED <<wg, ctx, cancelFunc, given, parent, err, pc>>

\* A slip: goFn / goRoutine calls c.wg.Done() before the function, not after.
TaskStartDone(t) ==
  LET c == tasks[t].wr IN
  /\ tasks[t].st = "pending"
  /\ tasks' = [tasks EXCEPT ![t].st = "running",
                            ![t].arg = IF tasks[t].kind = "routine"
                                       THEN ctx[tasks[t].wr] ELSE NoCtx]
  /\ wg' = [wg EXCEPT ![c] = @ - 1]
  /\ pc' = [th \in Callers |->
              IF wg'[c] = 0 /\ pc[th].op = "Wait" /\ pc[th].wr = c
                 /\ pc[th].phase = "blocked"
              THEN [pc[th] EXCEPT !.phase = "released"]
              ELSE pc[th]]
  /\ UNCHANGED <<ctx, cancelFunc, given, parent, err>>

\* The new goroutine runs goFn / goRoutine, which calls fn() or
\* routine(c.ctx).
TaskStart(t) ==
  /\ tasks[t].st = "pending"
  /\ tasks' = [tasks EXCEPT ![t].st = "running",
                            ![t].arg = IF tasks[t].kind = "routine"
                                       THEN ctx[tasks[t].wr] ELSE NoCtx]
  /\ UNCHANGED <<wg, ctx, cancelFunc, given, parent, err, pc>>

\* A slip: cancelling the instance also ends the plain functions.
CanReturnOnSignal(t) ==
  \/ tasks[t].body = "returns"
  \/ tasks[t].body = "untilDone" /\ Done(tasks[t].arg)
  \/ tasks[t].body = "forever" /\ Done(ctx[tasks[t].wr])

\* Whether the function can return: a plain one by itself (unless it blocks
\* for ever); a routine when it finds the Done channel of its argument closed.
CanReturn(t) ==
  \/ tasks[t].body = "returns"
  \/ tasks[t].body = "untilDone" /\ Done(tasks[t].arg)

\* A slip: c.wg.Done() runs twice, once deferred and once at the end.
TaskDoneTwice(t) ==
  LET c == tasks[t].wr IN
  /\ tasks[t].st = "running"
  /\ CanReturn(t)
  /\ tasks' = [tasks EXCEPT ![t].st = "done"]
  /\ wg' = [wg EXCEPT ![c] = @ - 2]
  /\ pc' = [th \in Callers |->
              IF wg'[c] = 0 /\ pc[th].op = "Wait" /\ pc[th].wr = c
                 /\ pc[th].phase = "blocked"
              THEN [pc[th] EXCEPT !.phase = "released"]
              ELSE pc[th]]
  /\ UNCHANGED <<ctx, cancelFunc, given, parent, err>>

\* The function returns and goFn / goRoutine calls c.wg.Done(): the counter
\* goes down, and at zero every waiter is released.
TaskDone(t) ==
  LET c == tasks[t].wr IN
  /\ tasks[t].st = "running"
  /\ CanReturn(t)
  /\ tasks' = [tasks EXCEPT ![t].st = "done"]
  /\ wg' = [wg EXCEPT ![c] = @ - 1]
  /\ pc' = [th \in Callers |->
              IF wg'[c] = 0 /\ pc[th].op = "Wait" /\ pc[th].wr = c
                 /\ pc[th].phase = "blocked"
              THEN [pc[th] EXCEPT !.phase = "released"]
              ELSE pc[th]]
  /\ UNCHANGED <<ctx, cancelFunc, given, parent, err>>

\* The main goroutine uses its own instance and the package-level functions;
\* the other call site uses the package-level functions.
Main == "m1"

Next ==
  \/ ParentDeadline
  \/ \E c \in Made, k \in 0..MaxFns : Go(Main, c, k, FALSE)
  \/ \E c \in Made, k \in 0..MaxFns : GoRoutine(Main, c, k, FALSE)
  \/ \E c \in Made : Cancel(Main, c, FALSE)
  \/ \E c \in Made : Wait(Main, c, FALSE)
  \/ \E th \in Callers, k \in 1..MaxFns : PkgGo(th, k)
  \/ \E th \in Callers, k \in 1..MaxFns : PkgGoRoutine(th, k)
  \/ \E th \in Callers : PkgCancel(th)
  \/ PkgWait(Main)
  \/ \E th \in Callers, b \in {"returns", "forever", "untilDone"} : GoRound(th, b)
  \/ \E th \in Callers : GoReturn(th)
  \/ \E th \in Callers : WaitReturn(th)
  \/ \E t \in TaskIds : TaskStart(t)
  \/ \E t \in TaskIds : TaskDone(t)

Spec == Init /\ [][Next]_vars

\* The Go scheduler runs every goroutine that can run: a caller inside a
\* launch loop or released from Wait goes on, a launched goroutine starts,
\* and a function that can return does (one that blocks for ever, or a
\* routine whose context is not cancelled, cannot).
Fairness ==
  /\ \A th \in Callers : WF_vars(\E b \in {"returns", "forever", "untilDone"} : GoRound(th, b))
  /\ \A th \in Callers : WF_vars(GoReturn(th))
  /\ \A th \in Callers : WF_vars(WaitReturn(th))
  /\ \A t \in TaskIds : WF_vars(TaskStart(t))
  /\ \A t \in TaskIds : WF_vars(TaskDone(t))

FairSpec == Spec /\ Fairness

\* ------------------------------------------------------------ accessors
\* A slip: WaitGroup returns the counter of the default instance.
WaitGroupDefault(c) == DefaultWaitRoutine

\* c.WaitGroup(): &c.wg, the counter of c itself (counters are named after
\* their instance).
WaitGroup(c) == c

\* c.Context(): c.ctx.
Context(c) == ctx[c]

\* The program counts a goroutine of its own by hand:
\* c.WaitGroup().Add(1), then a goroutine that either returns by itself or
\* waits for c.Context().Done(), and then calls c.WaitGroup().Done().
ManualAdd(th, c, body) ==
  LET t == Cardinality(Launched) + 1 IN
  /\ Free(th)
  /\ Cardinality(Launched) + Owed(Callers) + 1 <= MaxTasks
  /\ wg' = [wg EXCEPT ![WaitGroup(c)] = @ + 1]
  /\ tasks' = [tasks EXCEPT ![t] = [wr |-> WaitGroup(c), kind |-> "manual",
                                    body |-> body, st |-> "counted",
                                    arg |-> Context(c), by |-> 0]]
  /\ UNCHANGED <<ctx, cancelFunc, given, parent, err, pc>>

\* The goroutine counted by hand calls Done() on the handle: the counter
\* goes down, and at zero every waiter is released.
ManualDone(t) ==
  LET h == tasks[t].wr IN
  /\ tasks[t].st = "counted"
  /\ CanReturn(t)
  /\ tasks' = [tasks EXCEPT ![t].st = "done"]
  /\ wg' = [wg EXCEPT ![h] = @ - 1]
  /\ pc' = [th \in Callers |->
              IF wg'[h] = 0 /\ pc[th].op = "Wait" /\ pc[th].wr = h
                 /\ pc[th].phase = "blocked"
              THEN [pc[th] EXCEPT !.phase = "released"]
              ELSE pc[th]]
  /\ UNCHANGED <<ctx, cancelFunc, given, parent, err>>

\* The program also uses the accessors.
NextManual ==
  \/ Next
  \/ \E c \in Coords, b \in {"returns", "untilDone"} : ManualAdd(Main, c, b)
  \/ \E t \in TaskIds : ManualDone(t)

SpecManual == Init /\ [][NextManual]_vars

\* ------------------------------------------------------- nested launches
\* A slip: the nested launch starts the goroutine without c.wg.Add(1).
NestedGoNoAdd(t, kind, body) ==
  LET c == tasks[t].wr
      u == Cardinality(Launched) + 1 IN
  /\ tasks[t].st = "running"
  /\ tasks[t].kind \in {"fn", "routine"}
  /\ Cardinality(Launched) + Owed(Callers) + 1 <= MaxTasks
  /\ body \in Bodies(kind)
  /\ tasks' = [tasks EXCEPT ![u] = [wr |-> c, kind |-> kind, body |-> body,
                                    st |-> "pending", arg |-> NoCtx, by |-> t]]
  /\ UNCHANGED <<wg, ctx, cancelFunc, given, parent, err, pc>>

\* A running goroutine t calls c.Go(fn) or c.GoRoutine(routine) on the
\* instance that counts it, before its own function returns: c.wg.Add(1),
\* go c.goFn(fn) / go c.goRoutine(routine), return.
NestedGo(t, kind, body) ==
  LET c == tasks[t].wr
      u == Cardinality(Launched) + 1 IN
  /\ tasks[t].st = "running"
  /\ tasks[t].kind \in {"fn", "routine"}
  /\ Cardinality(Launched) + Owed(Callers) + 1 <= MaxTasks
  /\ body \in Bodies(kind)
  /\ wg' = [wg EXCEPT ![c] = @ + 1]
  /\ tasks' = [tasks EXCEPT ![u] = [wr |-> c, kind |-> kind, body |-> body,
                                    st |-> "pending", arg |-> NoCtx, by |-> t]]
  /\ UNCHANGED <<ctx, cancelFunc, given, parent, err, pc>>

\* The goroutines launch goroutines, too.
NextNested ==
  \/ Next
  \/ \E t \in TaskIds, b \in {"returns", "forever"} : NestedGo(t, "fn", b)
  \/ \E t \in TaskIds : NestedGo(t, "routine", "untilDone")

SpecNested == Init /\ [][NextNested]_vars

\* ------------------------------------------------- goroutines that abort
\* A slip: c.wg.Done() is deferred, so it runs also when the goroutine ends
\* without its function returning.
TaskAbortDeferred(t) ==
  LET c == tasks[t].wr IN
  /\ tasks[t].st = "running"
  /\ tasks[t].body = "aborts"
  /\ tasks' = [tasks EXCEPT ![t].st = "aborted"]
  /\ wg' = [wg EXCEPT ![c] = @ - 1]
  /\ pc' = [th \in Callers |->
              IF wg'[c] = 0 /\ pc[th].op = "Wait" /\ pc[th].wr = c
                 /\ pc[th].phase = "blocked"
              THEN [pc[th] EXCEPT !.phase = "released"]
              ELSE pc[th]]
  /\ UNCHANGED <<ctx, cancelFunc, given, parent, err>>

\* The goroutine ends inside fn() / routine(c.ctx): the call does not
\* return, so goFn / goRoutine never get to c.wg.Done().
TaskAbort(t) ==
  /\ tasks[t].st = "running"
  /\ tasks[t].body = "aborts"
  /\ tasks' = [tasks EXCEPT ![t].st = "aborted"]
  /\ UNCHANGED <<wg, ctx, cancelFunc, given, parent, err, pc>>

\* Functions that end their goroutine are launched, too.
NextAbort ==
  \/ Next
  \/ \E th \in Callers : GoRound(th, "aborts")
  \/ \E t \in TaskIds : TaskAbort(t)

SpecAbort == Init /\ [][NextAbort]_vars

\* ------------------------------------------------------------ properties
InWait(th) == pc[th].op = "Wait"
Blocked(th) == InWait(th) /\ pc[th].phase = "blocked"
Released(th) == InWait(th) /\ pc[th].phase = "released"
\* A step that is a call of Cancel on c.
Cancels(c) == \E th \in Callers, pkg \in BOOLEAN : Cancel(th, c, pkg)
\* Some goroutine counted on c runs a function that never returns.
Stuck(c) == \E t \in TaskIds : tasks[t].wr = c /\ tasks[t].body = "forever"
SnapOf(th, kind) == {t \in pc[th].snap : tasks[t].kind = kind}
AllDone(S) == \A t \in S : tasks[t].st = "done"

\* C1: a Wait called after N plain functions were launched with Go is
\* released only when all N have returned, and a Wait on an instance on which
\* nothing was launched is released at once, without blocking.
C1_WaitCoversGo ==
  \A th \in Callers :
    /\ Released(th) => AllDone(SnapOf(th, "fn"))
    /\ InWait(th) /\ pc[th].snap = {} => Released(th)

C1_Witness ==
  \E th \in Callers :
    /\ Released(th)
    /\ Cardinality(SnapOf(th, "fn")) = 2
    /\ AllDone(SnapOf(th, "fn"))

\* C2: with routines that loop until their context is cancelled, a Wait is
\* never released while one of the routines counted before it is still
\* running, and, under fair scheduling, a Wait blocked on a cancelled instance
\* does return (unless a function that never returns is counted on it).
C2_CancelThenWait ==
  /\ [](\A th \in Callers : Released(th) => AllDone(SnapOf(th, "routine")))
  /\ \A th \in Callers, c \in Coords :
       (Blocked(th) /\ pc[th].wr = c /\ Done(ctx[c])) ~> (Free(th) \/ Stuck(c))

C2_Witness ==
  \E th \in Callers :
    /\ Released(th)
    /\ Done(ctx[pc[th].wr])
    /\ Cardinality(SnapOf(th, "routine")) = 2
    /\ AllDone(SnapOf(th, "routine"))

\* C3: cancelling has no effect on a plain function: one that blocks for ever
\* never finishes, cancelled or not; one that returns by itself can do so
\* whatever the signal; a cancelled routine can return; and a Wait stays
\* blocked while a plain function counted before it has not returned, also
\* after the signal is triggered and the routines are gone.
C3_PlainIgnoresSignal ==
  \A t \in TaskIds :
    /\ tasks[t].kind = "fn" /\ tasks[t].body = "forever" => tasks[t].st # "done"
    /\ tasks[t].kind = "fn" /\ tasks[t].body = "returns" /\ tasks[t].st = "running"
         => ENABLED TaskDone(t)
    /\ tasks[t].kind = "routine" /\ tasks[t].st = "running" /\ Done(ctx[tasks[t].wr])
         => ENABLED TaskDone(t)
    /\ \A th \in Callers :
         InWait(th) /\ t \in SnapOf(th, "fn") /\ tasks[t].st # "done" => Blocked(th)

C3_Witness ==
  \E th \in Callers :
    /\ Blocked(th)
    /\ Done(ctx[pc[th].wr])
    /\ SnapOf(th, "routine") # {}
    /\ AllDone(SnapOf(th, "routine"))
    /\ \E t \in SnapOf(th, "fn") : tasks[t].st = "running"

\* C4: Cancel is idempotent: after a Cancel the signal is triggered and a
\* further Cancel would change nothing, and a Cancel on an instance that is
\* already cancelled changes nothing at all.
C4_CancelIdempotent ==
  [][\A c \in Coords : Cancels(c) =>
       /\ Done(ctx[c])'
       /\ CancelTree(err, cancelFunc[c], "Canceled")' = err'
       /\ (Done(ctx[c]) => UNCHANGED vars)]_vars

C4_Witness ==
  \E c \in Coords :
    /\ given[c] = Nil
    /\ err[ctx[c]] = "Canceled"
    /\ ENABLED Cancel(Main, c, FALSE)

\* C5: cancellation is monotonic: a context that is cancelled stays
\* cancelled, whatever step follows.
C5_CancelMonotonic ==
  [][\A x \in CtxIds : Done(x) => Done(x)']_vars

C5_Witness ==
  \E c \in Coords :
    /\ Done(ctx[c])
    /\ \A t \in TaskIds : tasks[t].wr = c /\ tasks[t].st = "done"
    /\ \A th \in Callers : Free(th)

\* C6: every routine is handed the context of its own instance; a running
\* routine of a cancelled instance can see the signal and return; and a
\* cancelled instance still launches: the round of GoRoutine is never held
\* back, and the goroutine it launches starts.
C6_SignalObservable ==
  /\ \A t \in TaskIds : tasks[t].kind = "routine" =>
       /\ tasks[t].st \in {"running", "done"} => tasks[t].arg = ctx[tasks[t].wr]
       /\ tasks[t].st = "running" /\ Done(ctx[tasks[t].wr]) => ENABLED TaskDone(t)
       /\ tasks[t].st = "pending" => ENABLED TaskStart(t)
  /\ \A th \in Callers :
       pc[th].op = "GoRoutine" /\ pc[th].phase = "active"
         => ENABLED GoRound(th, "untilDone")

\* The waiter was released with only routine 1 counted, so routine 2, which
\* is not done, was launched after routine 1 had seen the signal.
C6_Witness ==
  /\ Released(Main)
  /\ pc[Main].snap = {1}
  /\ tasks[1].kind = "routine" /\ tasks[1].st = "done"
  /\ tasks[2].kind = "routine" /\ tasks[2].wr = tasks[1].wr
  /\ tasks[2].st = "running" /\ Done(tasks[2].arg)

\* C7: an instance made from a parent context is derived from that parent
\* and is cancelled whenever the parent is; it becomes cancelled only by its
\* own Cancel or together with its parent; and a Wait that counted a routine
\* is not released before the instance is cancelled.
C7_ParentTriggers ==
  /\ [](/\ \A c \in Coords : given[c] \notin {Nil, Background} =>
             /\ parent[ctx[c]] = given[c]
             /\ (Done(given[c]) => Done(ctx[c]))
        /\ \A th \in Callers :
             Released(th) /\ SnapOf(th, "routine") # {} => Done(ctx[pc[th].wr]))
  /\ [][\A c \in Coords : ~Done(ctx[c]) /\ Done(ctx[c])' =>
          \/ Cancels(c)
          \/ ~Done(parent[ctx[c]]) /\ Done(parent[ctx[c]])']_vars

C7_Witness ==
  \E th \in Callers :
    /\ Released(th)
    /\ given[pc[th].wr] = Outer
    /\ err[ctx[pc[th].wr]] = "DeadlineExceeded"
    /\ Cardinality(SnapOf(th, "routine")) = 2

\* C8: an instance made with New(nil) exists, is derived from
\* context.Background(), starts not cancelled, and becomes cancelled only by
\* a Cancel on it.
C8_NilParent ==
  /\ \A c \in Coords : given[c] = Nil => ~Done(ctx[c])
  /\ [](\A c \in Coords : given[c] = Nil =>
          /\ ctx[c] # NoCtx
          /\ cancelFunc[c] = ctx[c]
          /\ parent[ctx[c]] = Background)
  /\ [][\A c \in Coords : given[c] = Nil /\ ~Done(ctx[c]) /\ Done(ctx[c])' =>
          Cancels(c)]_vars

C8_Witness ==
  \E c \in Coords :
    /\ given[c] = Nil
    /\ ~Done(ctx[c])
    /\ Done(ctx[DefaultWaitRoutine])
    /\ \E t \in TaskIds : tasks[t].wr = c /\ tasks[t].st = "done"
    /\ \E th \in Callers : Released(th) /\ pc[th].wr = c

\* C9: a call of a package-level function works on DefaultWaitRoutine; its
\* counter counts the unfinished goroutines of every such call; and a
\* package-level Wait is released only when all those counted before it are
\* done.
C9_PackageFunctionsShareDefault ==
  /\ \A th \in Callers : pc[th].pkg => pc[th].wr = DefaultWaitRoutine
  /\ wg[DefaultWaitRoutine] =
       Cardinality({t \in TaskIds : /\ tasks[t].wr = DefaultWaitRoutine
                                    /\ tasks[t].st \in {"pending", "running"}})
  /\ \A th \in Callers :
       Released(th) /\ pc[th].pkg =>
         /\ pc[th].snap \subseteq {t \in TaskIds : tasks[t].wr = DefaultWaitRoutine}
         /\ AllDone(pc[th].snap)

\* Goroutines of two calls, one of Go and one of GoRoutine, were counted
\* together and one Wait saw both finish.
C9_Witness ==
  \E th \in Callers :
    /\ Released(th) /\ pc[th].pkg
    /\ pc[th].snap = {1, 2}
    /\ tasks[1].kind # tasks[2].kind

\* C10: Cancel never blocks: a caller that is free to call it can run it in
\* every state, whatever the goroutines are doing; and the step that cancels
\* changes the contexts' errors only: no counter, no goroutine, no caller.
C10_CancelNeverBlocks ==
  /\ [](\A th \in Callers, c \in Coords : Free(th) => ENABLED Cancel(th, c, FALSE))
  /\ [][(\E x \in CtxIds : err[x] # "Canceled" /\ err'[x] = "Canceled") =>
          UNCHANGED <<wg, tasks, pc, ctx, cancelFunc, given, parent>>]_vars

C10_Witness ==
  \E t \in TaskIds :
    /\ tasks[t].body = "forever" /\ tasks[t].st = "running"
    /\ wg[tasks[t].wr] > 0
    /\ given[tasks[t].wr] = Nil
    /\ err[ctx[tasks[t].wr]] = "Canceled"

\* C11: a call of Go or GoRoutine with k functions makes exactly k rounds,
\* each of which adds one to the counter of its receiver, and of no other,
\* in the step that creates the goroutine (which starts only later); the
\* call is at its return exactly when no round is left, with no argument at
\* once; it returns its receiver; no round and no return is held back by
\* what the goroutines do; and the call leaves every context as it was.
C11_LaunchCounts ==
  /\ [](\A th \in Callers :
          /\ pc[th].phase = "active" =>
                /\ pc[th].left \in 1..MaxFns
                /\ \E b \in {"returns", "untilDone"} : ENABLED GoRound(th, b)
          /\ pc[th].phase = "returning" =>
                /\ pc[th].left = 0
                /\ pc[th].ret = pc[th].wr
                /\ ENABLED GoReturn(th))
  /\ [][\A th \in Callers :
          /\ Free(th) /\ pc'[th].op \in {"Go", "GoRoutine"} =>
                /\ UNCHANGED <<wg, err, tasks>>
                /\ pc'[th].phase = IF pc'[th].left = 0 THEN "returning" ELSE "active"
          /\ pc[th].phase = "active" /\ pc'[th] # pc[th] =>
                LET c == pc[th].wr
                    new == {t \in TaskIds : tasks'[t] # tasks[t]} IN
                /\ wg' = [wg EXCEPT ![c] = @ + 1]
                /\ err' = err
                /\ Cardinality(new) = 1
                /\ \A t \in new : /\ tasks[t].st = "none"
                                   /\ tasks'[t].st = "pending"
                                   /\ tasks'[t].wr = c
                /\ pc'[th].wr = c
                /\ pc'[th].left = pc[th].left - 1
                /\ pc'[th].phase = IF pc[th].left = 1 THEN "returning" ELSE "active"
          /\ pc[th].phase = "returning" /\ pc'[th] # pc[th] =>
                /\ Free(th)'
                /\ UNCHANGED <<wg, err, tasks>>]_vars

\* A call with two functions that never return is at its return: both were
\* counted on its receiver and neither has started.
C11_Witness ==
  \E th \in Callers :
    /\ pc[th].phase = "returning"
    /\ pc[th].ret \in Made
    /\ wg[pc[th].ret] = 2
    /\ \A t \in TaskIds : /\ tasks[t].wr = pc[th].ret
                          /\ tasks[t].body = "forever"
                          /\ tasks[t].st = "pending"

\* The goroutines counted on c that have not finished.
Unfinished(c) ==
  {t \in TaskIds : tasks[t].wr = c /\ tasks[t].st \in {"pending", "running"}}

\* C12: when goroutines are launched through Go and GoRoutine only, the
\* counter of every instance is the number of its goroutines that were
\* launched and have not finished: it is never negative, and it is zero
\* exactly when no goroutine of the instance is unfinished.
C12_CountExact ==
  \A c \in Coords :
    /\ wg[c] = Cardinality(Unfinished(c))
    /\ wg[c] >= 0
    /\ wg[c] = 0 <=> Unfinished(c) = {}

\* One goroutine of an instance has finished and another has not.
C12_Witness ==
  \E c \in Made :
    /\ wg[c] = 1
    /\ \E t \in TaskIds : tasks[t].wr = c /\ tasks[t].st = "done"
    /\ \E t \in TaskIds : tasks[t].wr = c /\ tasks[t].st = "running"

\* C13: a goroutine goes from pending to running to done, in this order and
\* never back; the counter of its instance goes up by one in the step that
\* creates it, so before it starts, stays as it is when it starts, and goes
\* down by one in the step in which its function has returned; the counters
\* change in no other step, so each goroutine is counted once and discounted
\* at most once; and a released Wait finds every goroutine counted before it
\* done.
C13_TaskLifecycle ==
  /\ [][/\ \A t \in TaskIds :
            LET c == tasks'[t].wr IN
            /\ tasks'[t].st # tasks[t].st =>
                  <<tasks[t].st, tasks'[t].st>> \in
                    {<<"none", "pending">>, <<"pending", "running">>,
                     <<"running", "done">>}
            /\ tasks[t].st # "none" =>
                  /\ tasks'[t].wr = tasks[t].wr
                  /\ tasks'[t].kind = tasks[t].kind
                  /\ tasks'[t].body = tasks[t].body
            /\ tasks[t].st = "none" /\ tasks'[t].st = "pending" =>
                  wg' = [wg EXCEPT ![c] = @ + 1]
            /\ tasks[t].st = "pending" /\ tasks'[t].st = "running" => wg' = wg
            /\ tasks[t].st = "running" /\ tasks'[t].st = "done" =>
                  wg' = [wg EXCEPT ![c] = @ - 1]
        /\ wg' # wg =>
              Cardinality({t \in TaskIds :
                             /\ tasks'[t].st # tasks[t].st
                             /\ tasks'[t].st \in {"pending", "done"}}) = 1]_vars
  /\ [](\A th \in Callers : Released(th) => AllDone(pc[th].snap))

\* A Wait on the program's own instance was released after both goroutines
\* counted before it had gone all the way to done.
C13_Witness ==
  \E th \in Callers :
    /\ Released(th) /\ ~pc[th].pkg
    /\ pc[th].snap = TaskIds
    /\ AllDone(TaskIds)
    /\ wg[pc[th].wr] = 0

\* The state of instance c: active until its context is cancelled, then
\* cancelling while its counter is positive and drained when it is zero.
CoordState(c) ==
  IF ~Done(ctx[c]) THEN "Active"
  ELSE IF wg[c] > 0 THEN "Cancelling" ELSE "Drained"

\* C14, as stated: an instance only goes from active to cancelling to
\* drained: no step takes a cancelling or drained instance back to active,
\* and no step takes a drained instance back to cancelling.
C14_Original ==
  [][\A c \in Coords :
       /\ CoordState(c) # "Active" => CoordState(c)' # "Active"
       /\ CoordState(c) = "Drained" => CoordState(c)' # "Cancelling"]_vars

\* C14, amended: no step takes a cancelling or drained instance back to
\* active; a drained instance does go back to cancelling, and only by a round
\* of Go or GoRoutine that counts a new goroutine on it.
C14_NeverBackToActive ==
  [][\A c \in Coords :
       /\ CoordState(c) # "Active" => CoordState(c)' # "Active"
       /\ CoordState(c) = "Drained" /\ CoordState(c)' = "Cancelling" =>
            /\ wg'[c] = wg[c] + 1
            /\ \E t \in TaskIds : /\ tasks[t].st = "none"
                                  /\ tasks'[t].st = "pending"
                                  /\ tasks'[t].wr = c]_vars

\* The waiter was released with routine 1 counted and done, so the instance
\* was cancelled and its counter zero; goroutine 2, counted since, makes the
\* instance cancelling again.
C14_Witness ==
  \E th \in Callers :
    /\ Released(th)
    /\ pc[th].snap = {1}
    /\ tasks[1].kind = "routine" /\ tasks[1].st = "done"
    /\ tasks[2].wr = pc[th].wr /\ tasks[2].st = "pending"
    /\ CoordState(pc[th].wr) = "Cancelling"

\* C15: the handle WaitGroup() returns is the instance's own counter: an
\* Add(1) through it raises that counter, a Wait cannot be released while a
\* goroutine counted by hand before it has not called Done(), and a released
\* Wait finds all goroutines counted before it, by hand or by Go/GoRoutine,
\* done.  The context Context() returns is the one Cancel cancels and the
\* one the routines are handed: a Cancel closes it, and a goroutine counted
\* by hand that waits for it can then finish.
C15_AccessorsShare ==
  /\ [][\A c \in Coords :
          (\E b \in {"returns", "untilDone"} : ManualAdd(Main, c, b)) =>
            wg' = [wg EXCEPT ![c] = @ + 1]]_vars
  /\ [](\A th \in Callers :
          /\ \A t \in SnapOf(th, "manual") :
                InWait(th) /\ tasks[t].st # "done" => Blocked(th)
          /\ Released(th) => AllDone(pc[th].snap))
  /\ [](\A c \in Coords : Context(c) = cancelFunc[c])
  /\ [](\A t \in TaskIds :
          /\ tasks[t].kind = "routine" /\ tasks[t].st \in {"running", "done"} =>
                tasks[t].arg = Context(tasks[t].wr)
          /\ tasks[t].kind = "manual" /\ tasks[t].st = "counted"
                /\ Done(Context(tasks[t].wr)) => ENABLED ManualDone(t))
  /\ [][\A c \in Coords : Cancels(c) => Done(Context(c))']_vars

\* One Wait on the program's own instance counted a goroutine added by hand,
\* which waited for Context().Done(), and a routine launched by GoRoutine,
\* and was released when both were done.
C15_Witness ==
  \E th \in Callers :
    /\ Released(th) /\ pc[th].wr \in Made
    /\ pc[th].snap = TaskIds
    /\ \E t \in TaskIds : /\ tasks[t].kind = "manual"
                          /\ tasks[t].body = "untilDone"
                          /\ tasks[t].st = "done"
    /\ \E t \in TaskIds : tasks[t].kind = "routine" /\ tasks[t].st = "done"

\* Goroutine t is in S or was launched, in any number of steps, by one in S.
RECURSIVE NestedUnder(_, _)
NestedUnder(t, S) ==
  IF t \in S THEN TRUE
  ELSE IF tasks[t].by = 0 THEN FALSE
  ELSE NestedUnder(tasks[t].by, S)

NeverReturns(t) == tasks[t].body \in {"forever", "aborts"}

\* C17: a counter goes down only in a step in which a running function
\* returns; the step in which a goroutine ends without its function
\* returning changes no counter and no caller; so a goroutine whose function
\* never returns, or does not return because its goroutine ended, is never
\* done, keeps the counter of its instance positive, and every Wait that
\* counted it stays blocked, whether the instance is cancelled or not.
C17_DoneOnlyOnReturn ==
  /\ [][/\ \A c \in Coords : wg'[c] < wg[c] =>
            \E t \in TaskIds : /\ tasks[t].wr = c
                                /\ tasks[t].st = "running" /\ CanReturn(t)
                                /\ tasks'[t].st = "done"
        /\ \A t \in TaskIds :
            tasks[t].st # "aborted" /\ tasks'[t].st = "aborted" =>
              UNCHANGED <<wg, pc, err>>]_vars
  /\ [](\A t \in Launched : NeverReturns(t) =>
          /\ tasks[t].st # "done"
          /\ wg[tasks[t].wr] > 0
          /\ \A th \in Callers : InWait(th) /\ t \in pc[th].snap => Blocked(th))

\* A goroutine ended without its function returning, every other goroutine
\* is done, the instance is cancelled, and the Wait that counted them is
\* blocked.
C17_Witness ==
  \E th \in Callers, t \in TaskIds :
    /\ Blocked(th) /\ pc[th].snap = TaskIds
    /\ tasks[t].st = "aborted"
    /\ \A u \in TaskIds \ {t} : tasks[u].st = "done"
    /\ err[ctx[pc[th].wr]] = "Canceled"

\* C18: Wait looks at the counter when it is called: it is released at once
\* exactly when the counter is zero then, whatever calls of Go and GoRoutine
\* are under way; the goroutines counted by then are all done when it is
\* released, so a goroutine found unfinished at a released Wait is one whose
\* round came after the Wait was called; and if no goroutine of the instance
\* was launched after the Wait was called, none is unfinished at its release.
C18_WaitSeesEarlierAdds ==
  /\ [][\A th \in Callers : Free(th) /\ InWait(th)' =>
          LET c == pc'[th].wr IN
          /\ pc'[th].snap = {t \in Launched : tasks[t].wr = c}
          /\ Released(th)' <=> wg[c] = 0]_vars
  /\ [](\A th \in Callers : Released(th) =>
          LET c == pc[th].wr IN
          /\ \A t \in Unfinished(c) : t \notin pc[th].snap
          /\ {t \in Launched : tasks[t].wr = c} \subseteq pc[th].snap =>
                Unfinished(c) = {})

\* A package-level Wait found the counter at zero and is released, while the
\* call of Go or GoRoutine of the other caller is still in its loop and the
\* goroutine it has launched on the default instance has not finished.
C18_Witness ==
  \E th \in Callers, other \in Callers :
    /\ Released(th) /\ pc[th].pkg
    /\ pc[th].snap = {}
    /\ other # th
    /\ pc[other].phase = "active" /\ pc[other].wr = DefaultWaitRoutine
    /\ tasks[1].wr = DefaultWaitRoutine
    /\ tasks[1].st \in {"pending", "running"}

\* C19: a Cancel on instance c cancels the context of c and every context
\* derived from it, and so every instance made from c.Context(); it changes
\* the error of no other context: not of the context c was derived from, not
\* of an instance that does not descend from c; and it changes no counter.
C19_CancelScoped ==
  [][\A c \in Coords : Cancels(c) =>
       /\ \A x \in CtxIds :
            /\ Descends(x, ctx[c]) => Done(x)'
            /\ err'[x] # err[x] => Descends(x, ctx[c]) /\ err'[x] = "Canceled"
       /\ err'[parent[ctx[c]]] = err[parent[ctx[c]]]
       /\ \A d \in Coords :
            /\ given[d] = ctx[c] => Done(ctx[d])'
            /\ ~Descends(ctx[d], ctx[c]) => err'[ctx[d]] = err[ctx[d]]
       /\ wg' = wg]_vars

\* The program's instance, made from DefaultWaitRoutine.Context(), is
\* cancelled while goroutines are counted on both instances; the default
\* instance, its parent, is not cancelled.
C19_Witness ==
  \E c \in Made :
    /\ given[c] = DefaultWaitRoutine
    /\ err[ctx[c]] = "Canceled"
    /\ ~Done(ctx[DefaultWaitRoutine])
    /\ wg[c] = 1 /\ wg[DefaultWaitRoutine] = 1

====
